---------------------------- MODULE Spec2Model ----------------------------
(***************************************************************************)
(* WhaleWinRateBot V2 (src/main.py): swap ingestion with dedup by          *)
(* signature, average-cost position tracking, realized PnL, lifetime and   *)
(* windowed statistics, and the long-term-winner discovery job.            *)
(*                                                                         *)
(* Amounts are Python floats in the source.  They are modelled as exact    *)
(* rationals <<n, d>> (d > 0, lowest terms): sums, products and quotients  *)
(* are computed as the code computes them, without the rounding error of   *)
(* IEEE doubles, and the 1e-9 snap of upsert_position is kept.             *)
(***************************************************************************)
EXTENDS Integers, Sequences, FiniteSets, TLC

(***************************************************************************)
(* Bounds of the model.                                                    *)
(***************************************************************************)
\* most swap rows a behaviour of the sequential webhook inserts
MaxSwaps == 3
\* most deliveries to the threaded webhook in one behaviour
MaxDeliveries == 4
\* most swap rows a behaviour of the discovery specification inserts
MaxDiscSwaps == 3
\* most clock advances in one behaviour
MaxTicks == 1
MaxQuerySwaps == 4

(***************************************************************************)
(* Configuration (environment variables with defaults) and literals.       *)
(* Amounts are in model units; the thresholds are set to small values     *)
(* through the environment, as the source allows.                          *)
(***************************************************************************)
MIN_TRADE_BASE == 1
EPS_DEN == 1000000000
DAY == 86400
LIFE_LIMIT == 100000
D30_DAYS == 30
D90_DAYS == 90
D30_MIN_TRADES == 1
D30_MIN_WINRATE == 50
D30_MIN_PNL == 1
D90_MIN_TRADES == 2
D90_MIN_WINRATE == 50
D90_MIN_PNL == 1
LIFE_MIN_TRADES == 2
LIFE_MIN_WINRATE == 50
LIFE_MIN_PNL == 2

QUOTE_MINTS == {"USDC", "wSOL"}
WalletOrder == <<"W1", "W2">>
Wallets == {WalletOrder[i] : i \in 1..Len(WalletOrder)}
TokenMints == {"T1", "T2"}
Keys == Wallets \X TokenMints
\* signature of an item that carries none (Python None, SQL NULL)
NoSig == "None"

(***************************************************************************)
(* Float arithmetic, on exact rationals.                                   *)
(***************************************************************************)
Abs(x) == IF x < 0 THEN -x ELSE x

RECURSIVE GCD(_, _)
GCD(a, b) == IF b = 0 THEN a ELSE GCD(b, a % b)

Rat(n, d) ==
    LET s == IF d < 0 THEN -1 ELSE 1
        g == GCD(Abs(n), Abs(d))
    IN  <<(s * n) \div g, (s * d) \div g>>

\* float(v) of an integer amount
Float(i) == <<i, 1>>
Zero == Float(0)
One == Float(1)

RAdd(x, y) == Rat(x[1] * y[2] + y[1] * x[2], x[2] * y[2])
RNeg(x) == <<-x[1], x[2]>>
RSub(x, y) == RAdd(x, RNeg(y))
RMul(x, y) == Rat(x[1] * y[1], x[2] * y[2])
RDiv(x, y) == Rat(x[1] * y[2], x[2] * y[1])
RLe(x, y) == x[1] * y[2] <= y[1] * x[2]
RLt(x, y) == x[1] * y[2] < y[1] * x[2]
RMin(x, y) == IF RLe(x, y) THEN x ELSE y

\* abs(x) < 1e-9, without overflowing: |n|/d < 1/10^9  <=>  d > |n| * 10^9
BelowEps(x) == x[1] = 0 \/ (x[2] - 1) \div Abs(x[1]) >= EPS_DEN

\* if abs(v) < 1e-9: v = 0.0
Snap(x) == IF BelowEps(x) THEN Zero ELSE x

(***************************************************************************)
(* Position rows.  A row that does not exist is [has |-> FALSE].           *)
(***************************************************************************)
NoRow == [has |-> FALSE, qty |-> Zero, cost |-> Zero]
Row(q, c) == [has |-> TRUE, qty |-> q, cost |-> c]

\* upsert_position: qty, cost of the fetched row, (0.0, 0.0) when there is none
RowQty(row) == IF row.has THEN row.qty ELSE Zero
RowCost(row) == IF row.has THEN row.cost ELSE Zero

\* mutant: the UPDATE writes the delta as the new cost basis
UpsertRow_Overwrite(row, qty_delta, base_delta) ==
    Row(Snap(RAdd(RowQty(row), qty_delta)), Snap(base_delta))

\* upsert_position: the values its UPDATE writes, from the row it fetched
UpsertRow(row, qty_delta, base_delta) ==
    Row(Snap(RAdd(RowQty(row), qty_delta)), Snap(RAdd(RowCost(row), base_delta)))

\* realize_sell: the guard on the fetched row
SellGuard(row, sell_qty, base_received) ==
    \/ RLe(sell_qty, Zero)
    \/ RLe(base_received, Zero)
    \/ RLe(RowQty(row), Zero)

\* mutant: portion is not clamped to 1.0
CostPortion_Unclamped(row, sell_qty) ==
    RMul(RowCost(row), RDiv(sell_qty, RowQty(row)))

\* mutant: portion is 1.0 whatever is sold
CostPortion_Whole(row, sell_qty) == RowCost(row)

\* realize_sell: cost_portion on the normal path
CostPortion(row, sell_qty) ==
    LET portion == RMin(One, RDiv(sell_qty, RowQty(row)))
    IN  RMul(RowCost(row), portion)

\* mutant: no guard, a SELL with nothing held realizes its proceeds
SellPlan_Phantom(row, sell_qty, base_received) ==
    LET removed == IF RLe(RowQty(row), Zero) THEN Zero
                   ELSE RMul(RowCost(row), RMin(One, RDiv(sell_qty, RowQty(row))))
    IN  [path |-> "normal", dq |-> RNeg(sell_qty), dc |-> RNeg(removed),
         pnl |-> RSub(base_received, removed)]

\* realize_sell: the deltas it hands to upsert_position, the PnL it returns
\* and whether it inserts a realized row, from the row it fetched
SellPlan(row, sell_qty, base_received) ==
    IF SellGuard(row, sell_qty, base_received)
    THEN [path |-> "guard", dq |-> RNeg(sell_qty), dc |-> Zero, pnl |-> Zero]
    ELSE [path |-> "normal", dq |-> RNeg(sell_qty),
          dc |-> RNeg(CostPortion(row, sell_qty)),
          pnl |-> RSub(base_received, CostPortion(row, sell_qty))]

BuyPlan_Realizes(token_amount, base_amount) ==
    [path |-> "normal", dq |-> token_amount, dc |-> base_amount, pnl |-> Zero]

\* the plan of a BUY: helius_webhook calls upsert_position directly
BuyPlan(token_amount, base_amount) ==
    [path |-> "buy", dq |-> token_amount, dc |-> base_amount, pnl |-> Zero]

\* mutant: a PnL of zero counts as a win
RealizedRow_WinOnZero(ts, wallet, token_mint, pnl, base_mint) ==
    [ts |-> ts, wallet |-> wallet, token_mint |-> token_mint, pnl_base |-> pnl,
     base_mint |-> base_mint, is_win |-> IF RLe(Zero, pnl) THEN 1 ELSE 0]

\* realize_sell: the realized row it inserts
RealizedRow(ts, wallet, token_mint, pnl, base_mint) ==
    [ts |-> ts, wallet |-> wallet, token_mint |-> token_mint, pnl_base |-> pnl,
     base_mint |-> base_mint, is_win |-> IF RLt(Zero, pnl) THEN 1 ELSE 0]

(***************************************************************************)
(* Webhook items and parse_swap_from_helius_obj.                           *)
(***************************************************************************)
NoData == [ok |-> FALSE]

ParseSwap(obj, ts) ==
    IF ~(obj.amountIn > 0 \/ obj.amountOut > 0)
    THEN NoData
    ELSE IF obj.tokenIn \in QUOTE_MINTS /\ obj.tokenOut \notin QUOTE_MINTS
    THEN IF obj.amountIn < MIN_TRADE_BASE THEN NoData
         ELSE [ok |-> TRUE, signature |-> obj.signature, ts |-> ts,
               wallet |-> obj.wallet, direction |-> "BUY",
               base_mint |-> obj.tokenIn, base_amount |-> Float(obj.amountIn),
               token_mint |-> obj.tokenOut, token_amount |-> Float(obj.amountOut)]
    ELSE IF obj.tokenOut \in QUOTE_MINTS /\ obj.tokenIn \notin QUOTE_MINTS
    THEN IF obj.amountOut < MIN_TRADE_BASE THEN NoData
         ELSE [ok |-> TRUE, signature |-> obj.signature, ts |-> ts,
               wallet |-> obj.wallet, direction |-> "SELL",
               base_mint |-> obj.tokenOut, base_amount |-> Float(obj.amountOut),
               token_mint |-> obj.tokenIn, token_amount |-> Float(obj.amountIn)]
    ELSE NoData

Obj(sig, w, tin, tout, ain, aout) ==
    [signature |-> sig, wallet |-> w, tokenIn |-> tin, tokenOut |-> tout,
     amountIn |-> ain, amountOut |-> aout]

\* a swap of base units of USDC against amt units of token
BuyObj(sig, w, token, amt, base) == Obj(sig, w, "USDC", token, base, amt)
SellObj(sig, w, token, amt, base) == Obj(sig, w, token, "USDC", amt, base)

(***************************************************************************)
(* State.                                                                  *)
(***************************************************************************)
VARIABLES
    \* the five tables of init_db
    swaps,        \* sequence of swap rows, in insertion (id) order
    positions,    \* [Keys -> position row or NoRow]
    realized,     \* sequence of realized rows, in insertion (id) order
    follows,      \* set of wallets
    announced,    \* set of wallets
    \* now_ts(), and the number of times the clock was advanced
    now, ticks,
    \* per swap row: what its processing did (history, read by no action):
    \* upd, real: position writes and realized inserts committed for it;
    \* pre: the row realize_sell fetched (upsert_position for a BUY);
    \* post: the row written; pnl: the PnL returned; rid: its realized row
    eff,
    \* helius_webhook request threads: position in the handler and locals
    pc, items, data, row, plan, sid, deliveries,
    \* per signature: how many times it was delivered (history)
    delivered,
    \* discovery_job invocations: configuration, position and locals
    autoFollow, dpc, life, d30, d90, winners, newWinners,
    \* history of discovery: wallets each call emitted, wallets emitted by
    \* calls that had returned when the call began, wallets emitted by
    \* returned calls, wallets emitted while already in announced, and the
    \* (number of realized rows, clock) pairs the call's three queries saw
    mine, prior, doneEmitted, reEmit, seen,
    \* what the last query of the operator returned, until the tables or the
    \* clock move on
    reply

dbVars == <<swaps, positions, realized, follows, announced>>
clockVars == <<now, ticks>>
hookVars == <<pc, items, data, row, plan, sid, deliveries, delivered>>
discVars == <<autoFollow, dpc, life, d30, d90, winners, newWinners, mine,
              prior, doneEmitted, reEmit, seen>>
vars == <<dbVars, clockVars, eff, hookVars, discVars, reply>>

\* Flask serves requests in threads (app.run, threaded by default)
Threads == {1, 2}
\* discovery_job runs in the scheduler's thread and in the bot's thread
DiscCallers == {"sched", "tg"}

\* the transactions on the chain that the threaded webhook is sent
HookObjs ==
    { BuyObj("S1", "W1", "T1", 2, 1),
      BuyObj("S2", "W1", "T1", 1, 2),
      SellObj("S3", "W1", "T1", 1, 2),
      BuyObj("S4", "W2", "T1", 1, 1) }

\* the transactions sent when each request thread carries one wallet's
PairObjs(t) ==
    IF t = 1
    THEN { BuyObj("S1", "W1", "T1", 2, 1), SellObj("S3", "W1", "T1", 1, 2) }
    ELSE { BuyObj("S4", "W2", "T1", 1, 1), SellObj("S5", "W2", "T1", 1, 2) }

\* the transactions sent when two SELLs of one pair can meet: everything
\* bought is sold twice over
SellObjs ==
    { BuyObj("S1", "W1", "T1", 1, 2),
      SellObj("S3", "W1", "T1", 1, 3),
      SellObj("S6", "W1", "T1", 1, 3) }

HookSigs ==
    {o.signature : o \in HookObjs \cup PairObjs(1) \cup PairObjs(2) \cup SellObjs}

NoReply == [op |-> "none", args |-> <<>>, rows |-> <<>>]

NoPlan == [path |-> "none", dq |-> Zero, dc |-> Zero, pnl |-> Zero]

InitTables ==
    /\ swaps = <<>>
    /\ positions = [k \in Keys |-> NoRow]
    /\ realized = <<>>
    /\ follows = {}
    /\ announced = {}
    /\ now = 0
    /\ ticks = 0
    /\ eff = <<>>
    /\ pc = [t \in Threads |-> "idle"]
    /\ items = [t \in Threads |-> <<>>]
    /\ data = [t \in Threads |-> NoData]
    /\ row = [t \in Threads |-> NoRow]
    /\ plan = [t \in Threads |-> NoPlan]
    /\ sid = [t \in Threads |-> 0]
    /\ deliveries = 0
    /\ delivered = [s \in HookSigs |-> 0]
    /\ dpc = [c \in DiscCallers |-> "idle"]
    /\ life = [c \in DiscCallers |-> <<>>]
    /\ d30 = [c \in DiscCallers |-> <<>>]
    /\ d90 = [c \in DiscCallers |-> <<>>]
    /\ winners = [c \in DiscCallers |-> <<>>]
    /\ newWinners = [c \in DiscCallers |-> <<>>]
    /\ mine = [c \in DiscCallers |-> {}]
    /\ prior = [c \in DiscCallers |-> {}]
    /\ doneEmitted = {}
    /\ reEmit = {}
    /\ seen = [c \in DiscCallers |-> {}]
    /\ reply = NoReply

\* AUTO_FOLLOW_DISCOVERED is false by default
Init == InitTables /\ autoFollow = FALSE

(***************************************************************************)
(* insert_swap.                                                            *)
(***************************************************************************)
SwapRow(d) ==
    [signature |-> d.signature, ts |-> d.ts, wallet |-> d.wallet,
     direction |-> d.direction, base_mint |-> d.base_mint,
     base_amount |-> d.base_amount, token_mint |-> d.token_mint,
     token_amount |-> d.token_amount]

\* the UNIQUE constraint on swaps.signature: NULLs never conflict
InsertSwapOK(table, sig) ==
    sig = NoSig \/ \A i \in 1..Len(table) : table[i].signature # sig

\* helius_webhook: the plan of the parsed item against the row realize_sell
\* fetched (a BUY fetches nothing before upsert_position)
PlanOf(d, fetched) ==
    IF d.direction = "BUY"
    THEN BuyPlan(d.token_amount, d.base_amount)
    ELSE SellPlan(fetched, d.token_amount, d.base_amount)

(***************************************************************************)
(* helius_webhook on one item while no other request is in flight: the     *)
(* body of its loop, from parse to the last commit.                        *)
(***************************************************************************)
WebhookItem(obj) ==
    LET d == ParseSwap(obj, now) IN
    IF ~d.ok
    THEN UNCHANGED <<swaps, positions, realized, eff>>
    ELSE IF ~InsertSwapOK(swaps, d.signature)
    THEN UNCHANGED <<swaps, positions, realized, eff>>
    ELSE
        LET key == <<d.wallet, d.token_mint>>
            fetched == positions[key]
            p == PlanOf(d, fetched)
            written == UpsertRow(fetched, p.dq, p.dc)
        IN  /\ swaps' = Append(swaps, SwapRow(d))
            /\ positions' = [positions EXCEPT ![key] = written]
            /\ realized' = IF p.path = "normal"
                           THEN Append(realized,
                                       RealizedRow(now, d.wallet, d.token_mint,
                                                   p.pnl, d.base_mint))
                           ELSE realized
            /\ eff' = Append(eff, [upd |-> 1,
                                   real |-> IF p.path = "normal" THEN 1 ELSE 0,
                                   path |-> p.path, pre |-> fetched,
                                   post |-> written, pnl |-> p.pnl,
                                   rid |-> IF p.path = "normal"
                                           THEN Len(realized) + 1 ELSE 0,
                                   err |-> FALSE])

(***************************************************************************)
(* Sequential ingestion: one request at a time.                            *)
(***************************************************************************)
SigOrder == <<"S1", "S2", "S3", "S4", "S5", "S6">>
\* signatures on the chain are interchangeable: an item carries the next
\* unused one or one already recorded (a re-delivery)
SigChoices(table) ==
    {SigOrder[Len(table) + 1]} \cup {table[i].signature : i \in 1..Len(table)}

SeqTokenAmounts == {0, 1, 2}
SeqBaseAmounts == {0, 1, 2}
SeqWebhook ==
    /\ Len(swaps) < MaxSwaps
    /\ \E s \in SigChoices(swaps), w \in Wallets, dir \in {"BUY", "SELL"},
          a \in SeqTokenAmounts, b \in SeqBaseAmounts :
            WebhookItem(IF dir = "BUY" THEN BuyObj(s, w, "T1", a, b)
                                       ELSE SellObj(s, w, "T1", a, b))
    /\ UNCHANGED <<follows, announced, clockVars, hookVars, discVars, reply>>

NextSeq == SeqWebhook

SpecSeq == Init /\ [][NextSeq]_vars

(***************************************************************************)
(* Ranking and windows: get_top_wallets, get_window_stats and              *)
(* filter_long_term_winners, over a realized table.                        *)
(***************************************************************************)
\* SQL ROUND(x, 2): to the nearest hundredth, halves away from zero
Round2(x) ==
    LET h == (2 * 100 * Abs(x[1]) + x[2]) \div (2 * x[2])
    IN  Rat((IF x[1] < 0 THEN -1 ELSE 1) * h, 100)

RECURSIVE SumPnl(_, _)
\* SUM(pnl_base) over the rows ids of table
SumPnl(table, ids) ==
    IF ids = {} THEN Zero
    ELSE LET i == CHOOSE x \in ids : TRUE
         IN  RAdd(table[i].pnl_base, SumPnl(table, ids \ {i}))

StatRow_WinsAll(table, w, ids) ==
    [wallet |-> w, wins |-> Cardinality(ids), trades |-> Cardinality(ids),
     win_rate_pct |-> Round2(Rat(100 * Cardinality(ids), Cardinality(ids))),
     pnl_sum |-> Round2(SumPnl(table, ids)),
     tokens |-> Cardinality({table[i].token_mint : i \in ids})]

\* one row of the GROUP BY wallet, over the rows ids of the wallet
StatRow(table, w, ids) ==
    LET wins == Cardinality({i \in ids : table[i].is_win = 1})
        trades == Cardinality(ids)
    IN  [wallet |-> w, wins |-> wins, trades |-> trades,
         win_rate_pct |-> Round2(Rat(100 * wins, trades)),
         pnl_sum |-> Round2(SumPnl(table, ids)),
         tokens |-> Cardinality({table[i].token_mint : i \in ids})]

\* ORDER BY win_rate_pct DESC, pnl_sum DESC
RanksBefore(a, b) ==
    \/ RLt(b.win_rate_pct, a.win_rate_pct)
    \/ a.win_rate_pct = b.win_rate_pct /\ RLt(b.pnl_sum, a.pnl_sum)

RECURSIVE InsertRanked(_, _)
InsertRanked(r, rows) ==
    IF rows = <<>> THEN <<r>>
    ELSE IF RanksBefore(r, Head(rows)) THEN <<r>> \o rows
    ELSE <<Head(rows)>> \o InsertRanked(r, Tail(rows))

RECURSIVE GroupRows(_, _, _, _)
\* the groups of the rows ids of table with trades >= min_trades, ranked;
\* wallets are taken from position n of WalletOrder down, so that rows that
\* rank the same come out in wallet order
GroupRows(table, ids, min_trades, n) ==
    IF n = 0 THEN <<>>
    ELSE LET w == WalletOrder[n]
             mineIds == {i \in ids : table[i].wallet = w}
             rest == GroupRows(table, ids, min_trades, n - 1)
         IN  IF mineIds = {} \/ Cardinality(mineIds) < min_trades
             THEN rest
             ELSE InsertRanked(StatRow(table, w, mineIds), rest)

Limit_Tail(rows, limit) ==
    IF limit < 0 \/ Len(rows) < limit THEN rows
    ELSE SubSeq(rows, Len(rows) - limit + 1, Len(rows))

\* LIMIT ?: a negative limit is no limit in SQLite
Limit(rows, limit) ==
    IF limit < 0 \/ Len(rows) < limit THEN rows ELSE SubSeq(rows, 1, limit)

get_top_wallets(table, min_trades, limit) ==
    Limit(GroupRows(table, 1..Len(table), min_trades, Len(WalletOrder)), limit)

InWindow_Strict(table, clock, days) ==
    {i \in 1..Len(table) : table[i].ts > clock - days * DAY}

\* WHERE ts >= since, since = now_ts() - days * 86400
InWindow(table, clock, days) ==
    {i \in 1..Len(table) : table[i].ts >= clock - days * DAY}

get_window_stats(table, clock, days) ==
    GroupRows(table, InWindow(table, clock, days), 1, Len(WalletOrder))

\* dict.get(w) on {r["wallet"]: r for r in rows}
NoStat == [wallet |-> NoSig, wins |-> 0, trades |-> 0, win_rate_pct |-> Zero,
           pnl_sum |-> Zero, tokens |-> 0]
RowFor(rows, w) ==
    IF \E i \in 1..Len(rows) : rows[i].wallet = w
    THEN rows[CHOOSE i \in 1..Len(rows) : rows[i].wallet = w]
    ELSE NoStat
HasRow(rows, w) == \E i \in 1..Len(rows) : rows[i].wallet = w

\* filter_long_term_winners: the lifetime checks of one wallet fail
LifeFails(r) ==
    \/ r.trades < LIFE_MIN_TRADES
    \/ RLt(r.win_rate_pct, Float(LIFE_MIN_WINRATE))
    \/ RLt(r.pnl_sum, Float(LIFE_MIN_PNL))

\* filter_long_term_winners: the d30 or the d90 row is missing
WindowMissing(rows30, rows90, w) == ~HasRow(rows30, w) \/ ~HasRow(rows90, w)

WindowsPass_Only30(r30, r90) ==
    /\ r30.trades >= D30_MIN_TRADES
    /\ RLe(Float(D30_MIN_WINRATE), r30.win_rate_pct)
    /\ RLe(Float(D30_MIN_PNL), r30.pnl_sum)

\* filter_long_term_winners: the checks of the two windows
WindowsPass(r30, r90) ==
    /\ r30.trades >= D30_MIN_TRADES
    /\ RLe(Float(D30_MIN_WINRATE), r30.win_rate_pct)
    /\ RLe(Float(D30_MIN_PNL), r30.pnl_sum)
    /\ r90.trades >= D90_MIN_TRADES
    /\ RLe(Float(D90_MIN_WINRATE), r90.win_rate_pct)
    /\ RLe(Float(D90_MIN_PNL), r90.pnl_sum)

RECURSIVE Winners(_, _, _)
\* filter_long_term_winners: the loop over life.items(); the winners'
\* wallets, in the order of the lifetime ranking
Winners(lifeRows, rows30, rows90) ==
    IF lifeRows = <<>> THEN <<>>
    ELSE LET r == Head(lifeRows)
             rest == Winners(Tail(lifeRows), rows30, rows90)
         IN  IF LifeFails(r) THEN rest
             ELSE IF WindowMissing(rows30, rows90, r.wallet) THEN rest
             ELSE IF WindowsPass(RowFor(rows30, r.wallet), RowFor(rows90, r.wallet))
                  THEN <<r.wallet>> \o rest
                  ELSE rest

(***************************************************************************)
(* helius_webhook under concurrent requests.  Each request thread opens    *)
(* its own connection (db()); every statement outside a transaction and    *)
(* every transaction up to its commit is one step.  The SELECT on follows  *)
(* and the Telegram messages change no table and are left out.             *)
(***************************************************************************)
KeyOf(d) == <<d.wallet, d.token_mint>>

PendingEff ==
    [upd |-> 0, real |-> 0, path |-> "pending", pre |-> NoRow, post |-> NoRow,
     pnl |-> Zero, rid |-> 0, err |-> FALSE]

\* a request arrives: items = [payload]
Receive(t, obj) ==
    /\ pc[t] = "idle"
    /\ deliveries < MaxDeliveries
    /\ deliveries' = deliveries + 1
    /\ delivered' = [delivered EXCEPT ![obj.signature] = @ + 1]
    /\ items' = [items EXCEPT ![t] = <<obj>>]
    /\ pc' = [pc EXCEPT ![t] = "item"]
    /\ UNCHANGED <<dbVars, clockVars, eff, data, row, plan, sid, discVars, reply>>

\* for obj in items: parse it and insert_swap (the INSERT and its commit)
InsertSwap(t) ==
    /\ pc[t] = "item"
    /\ items[t] # <<>>
    /\ LET d == ParseSwap(Head(items[t]), now) IN
       IF ~d.ok \/ ~InsertSwapOK(swaps, (IF d.ok THEN d.signature ELSE NoSig))
       THEN /\ items' = [items EXCEPT ![t] = Tail(items[t])]
            /\ UNCHANGED <<swaps, eff, data, plan, sid, pc>>
       ELSE /\ swaps' = Append(swaps, SwapRow(d))
            /\ eff' = Append(eff, PendingEff)
            /\ sid' = [sid EXCEPT ![t] = Len(swaps) + 1]
            /\ data' = [data EXCEPT ![t] = d]
            /\ plan' = [plan EXCEPT ![t] =
                          IF d.direction = "BUY" THEN PlanOf(d, NoRow) ELSE NoPlan]
            /\ pc' = [pc EXCEPT ![t] =
                          IF d.direction = "BUY" THEN "upsert_select"
                                                 ELSE "sell_select"]
            /\ UNCHANGED items
    /\ UNCHANGED <<positions, realized, follows, announced, clockVars, row,
                   deliveries, delivered, discVars, reply>>

\* realize_sell: its SELECT, the guard and the computation of pnl
SellSelect(t) ==
    /\ pc[t] = "sell_select"
    /\ LET fetched == positions[KeyOf(data[t])] IN
       /\ plan' = [plan EXCEPT ![t] = PlanOf(data[t], fetched)]
       /\ eff' = [eff EXCEPT ![sid[t]].pre = fetched]
    /\ pc' = [pc EXCEPT ![t] = "upsert_select"]
    /\ UNCHANGED <<dbVars, clockVars, items, data, row, sid, deliveries, delivered, discVars, reply>>

\* upsert_position: its SELECT
UpsertSelect(t) ==
    /\ pc[t] = "upsert_select"
    /\ row' = [row EXCEPT ![t] = positions[KeyOf(data[t])]]
    /\ eff' = IF data[t].direction = "BUY"
              THEN [eff EXCEPT ![sid[t]].pre = positions[KeyOf(data[t])]]
              ELSE eff
    /\ pc' = [pc EXCEPT ![t] = "upsert_write"]
    /\ UNCHANGED <<dbVars, clockVars, items, data, plan, sid, deliveries, delivered, discVars, reply>>

\* the INSERT of upsert_position hits the primary key when another request
\* created the row after this one's SELECT: sqlite3.IntegrityError
UpsertConflict(fetched, current) == ~fetched.has /\ current.has

UpsertWrite_AnyWallet(t) ==
    /\ pc[t] = "upsert_write"
    /\ LET key == KeyOf(data[t]) IN
       IF UpsertConflict(row[t], positions[key])
       THEN /\ eff' = [eff EXCEPT ![sid[t]].err = TRUE,
                                  ![sid[t]].path = plan[t].path,
                                  ![sid[t]].pnl = plan[t].pnl]
            /\ pc' = [pc EXCEPT ![t] = "idle"]
            /\ items' = [items EXCEPT ![t] = <<>>]
            /\ UNCHANGED positions
       ELSE LET written == UpsertRow(row[t], plan[t].dq, plan[t].dc) IN
            /\ positions' = [k \in Keys |-> IF k[2] = key[2] THEN written
                                                            ELSE positions[k]]
            /\ eff' = [eff EXCEPT ![sid[t]].upd = @ + 1,
                                  ![sid[t]].post = written,
                                  ![sid[t]].path = plan[t].path,
                                  ![sid[t]].pnl = plan[t].pnl]
            /\ pc' = [pc EXCEPT ![t] =
                          IF plan[t].path = "normal" THEN "realized_insert"
                                                     ELSE "item"]
            /\ items' = [items EXCEPT ![t] =
                          IF plan[t].path = "normal" THEN @ ELSE Tail(@)]
    /\ UNCHANGED <<swaps, realized, follows, announced, clockVars, data, row,
                   plan, sid, deliveries, delivered, discVars, reply>>

\* upsert_position: the INSERT when it fetched no row, the UPDATE, the commit.
\* An IntegrityError is caught nowhere: the request ends with the rest of
\* its items unprocessed.
UpsertWrite(t) ==
    /\ pc[t] = "upsert_write"
    /\ LET key == KeyOf(data[t]) IN
       IF UpsertConflict(row[t], positions[key])
       THEN /\ eff' = [eff EXCEPT ![sid[t]].err = TRUE,
                                  ![sid[t]].path = plan[t].path,
                                  ![sid[t]].pnl = plan[t].pnl]
            /\ pc' = [pc EXCEPT ![t] = "idle"]
            /\ items' = [items EXCEPT ![t] = <<>>]
            /\ UNCHANGED positions
       ELSE LET written == UpsertRow(row[t], plan[t].dq, plan[t].dc) IN
            /\ positions' = [positions EXCEPT ![key] = written]
            /\ eff' = [eff EXCEPT ![sid[t]].upd = @ + 1,
                                  ![sid[t]].post = written,
                                  ![sid[t]].path = plan[t].path,
                                  ![sid[t]].pnl = plan[t].pnl]
            /\ pc' = [pc EXCEPT ![t] =
                          IF plan[t].path = "normal" THEN "realized_insert"
                                                     ELSE "item"]
            /\ items' = [items EXCEPT ![t] =
                          IF plan[t].path = "normal" THEN @ ELSE Tail(@)]
    /\ UNCHANGED <<swaps, realized, follows, announced, clockVars, data, row,
                   plan, sid, deliveries, delivered, discVars, reply>>

\* realize_sell: the INSERT into realized and its commit
RealizedInsert(t) ==
    /\ pc[t] = "realized_insert"
    /\ realized' = Append(realized,
                          RealizedRow(now, data[t].wallet, data[t].token_mint,
                                      plan[t].pnl, data[t].base_mint))
    /\ eff' = [eff EXCEPT ![sid[t]].real = @ + 1,
                          ![sid[t]].rid = Len(realized) + 1]
    /\ pc' = [pc EXCEPT ![t] = "item"]
    /\ items' = [items EXCEPT ![t] = Tail(@)]
    /\ UNCHANGED <<swaps, positions, follows, announced, clockVars, data, row,
                   plan, sid, deliveries, delivered, discVars, reply>>

\* the loop is over: conn.close() and the response
Respond(t) ==
    /\ pc[t] = "item"
    /\ items[t] = <<>>
    /\ pc' = [pc EXCEPT ![t] = "idle"]
    /\ UNCHANGED <<dbVars, clockVars, eff, items, data, row, plan, sid,
                   deliveries, delivered, discVars, reply>>

Next ==
    \/ \E t \in Threads, obj \in HookObjs : Receive(t, obj)
    \/ \E t \in Threads : InsertSwap(t)
    \/ \E t \in Threads : SellSelect(t)
    \/ \E t \in Threads : UpsertSelect(t)
    \/ \E t \in Threads : UpsertWrite(t)
    \/ \E t \in Threads : RealizedInsert(t)
    \/ \E t \in Threads : Respond(t)

Spec == Init /\ [][Next]_vars

(***************************************************************************)
(* discovery_job, run by the scheduler's thread and by /discover in the    *)
(* bot's thread, next to ingestion and a moving clock.  Each query and     *)
(* each committed statement is one step; a delivered swap is ingested in   *)
(* one step here.                                                          *)
(***************************************************************************)
\* new_winners = [w for w in winners if w["wallet"] not in announced]
NewWinners_All(ws, ann) == ws

NewWinners(ws, ann) == SelectSeq(ws, LAMBDA w : w \notin ann)

\* AUTO_FOLLOW_DISCOVERED is read from the environment
InitDisc == InitTables /\ autoFollow \in BOOLEAN

\* life = get_top_wallets(min_trades=1, limit=100000), first query of
\* filter_long_term_winners
DiscLife(c) ==
    /\ dpc[c] = "idle"
    /\ dpc' = [dpc EXCEPT ![c] = "d30"]
    /\ life' = [life EXCEPT ![c] = get_top_wallets(realized, 1, LIFE_LIMIT)]
    /\ seen' = [seen EXCEPT ![c] = {<<Len(realized), now>>}]
    /\ prior' = [prior EXCEPT ![c] = doneEmitted]
    /\ mine' = [mine EXCEPT ![c] = {}]
    /\ UNCHANGED <<dbVars, clockVars, eff, hookVars, autoFollow, reply, d30, d90,
                   winners, newWinners, doneEmitted, reEmit>>

\* d30 = get_window_stats(30)
DiscD30(c) ==
    /\ dpc[c] = "d30"
    /\ dpc' = [dpc EXCEPT ![c] = "d90"]
    /\ d30' = [d30 EXCEPT ![c] = get_window_stats(realized, now, D30_DAYS)]
    /\ seen' = [seen EXCEPT ![c] = @ \cup {<<Len(realized), now>>}]
    /\ UNCHANGED <<dbVars, clockVars, eff, hookVars, autoFollow, reply, life, d90,
                   winners, newWinners, mine, prior, doneEmitted, reEmit>>

\* d90 = get_window_stats(90), then the loop that builds winners
DiscD90(c) ==
    LET rows90 == get_window_stats(realized, now, D90_DAYS)
    IN  /\ dpc[c] = "d90"
        /\ dpc' = [dpc EXCEPT ![c] = "announced"]
        /\ d90' = [d90 EXCEPT ![c] = rows90]
        /\ winners' = [winners EXCEPT ![c] = Winners(life[c], d30[c], rows90)]
        /\ seen' = [seen EXCEPT ![c] = @ \cup {<<Len(realized), now>>}]
        /\ UNCHANGED <<dbVars, clockVars, eff, hookVars, autoFollow, reply, life, d30,
                       newWinners, mine, prior, doneEmitted, reEmit>>

\* SELECT wallet FROM announced, and new_winners
DiscAnnounced(c) ==
    /\ dpc[c] = "announced"
    /\ dpc' = [dpc EXCEPT ![c] = "loop"]
    /\ newWinners' = [newWinners EXCEPT ![c] = NewWinners(winners[c], announced)]
    /\ UNCHANGED <<dbVars, clockVars, eff, hookVars, autoFollow, reply, life, d30,
                   d90, winners, mine, prior, doneEmitted, reEmit, seen>>

\* send_tg(format_winner_msg(w)) for the next of new_winners
DiscEmit(c) ==
    /\ dpc[c] = "loop"
    /\ newWinners[c] # <<>>
    /\ LET w == Head(newWinners[c])
       IN  /\ mine' = [mine EXCEPT ![c] = @ \cup {w}]
           /\ reEmit' = IF w \in announced THEN reEmit \cup {w} ELSE reEmit
    /\ dpc' = [dpc EXCEPT ![c] = IF autoFollow THEN "follow" ELSE "mark"]
    /\ UNCHANGED <<dbVars, clockVars, eff, hookVars, autoFollow, reply, life, d30,
                   d90, winners, newWinners, prior, doneEmitted, seen>>

\* mutant: the auto-follow INSERT is skipped
DiscFollow_Skip(c) ==
    /\ dpc[c] = "follow"
    /\ dpc' = [dpc EXCEPT ![c] = "mark"]
    /\ UNCHANGED <<dbVars, clockVars, eff, hookVars, autoFollow, reply, life,
                   d30, d90, winners, newWinners, mine, prior, doneEmitted,
                   reEmit, seen>>

\* INSERT OR REPLACE INTO follows, under AUTO_FOLLOW_DISCOVERED
DiscFollow(c) ==
    /\ dpc[c] = "follow"
    /\ follows' = follows \cup {Head(newWinners[c])}
    /\ dpc' = [dpc EXCEPT ![c] = "mark"]
    /\ UNCHANGED <<swaps, positions, realized, announced, clockVars, eff,
                   hookVars, autoFollow, reply, life, d30, d90, winners, newWinners,
                   mine, prior, doneEmitted, reEmit, seen>>

\* INSERT OR REPLACE INTO announced, and on to the next of new_winners
DiscMark(c) ==
    /\ dpc[c] = "mark"
    /\ announced' = announced \cup {Head(newWinners[c])}
    /\ newWinners' = [newWinners EXCEPT ![c] = Tail(@)]
    /\ dpc' = [dpc EXCEPT ![c] = "loop"]
    /\ UNCHANGED <<swaps, positions, realized, follows, clockVars, eff,
                   hookVars, autoFollow, reply, life, d30, d90, winners, mine, prior,
                   doneEmitted, reEmit, seen>>

\* conn.close() and return
DiscReturn(c) ==
    /\ dpc[c] = "loop"
    /\ newWinners[c] = <<>>
    /\ dpc' = [dpc EXCEPT ![c] = "idle"]
    /\ doneEmitted' = doneEmitted \cup mine[c]
    /\ life' = [life EXCEPT ![c] = <<>>]
    /\ d30' = [d30 EXCEPT ![c] = <<>>]
    /\ d90' = [d90 EXCEPT ![c] = <<>>]
    /\ winners' = [winners EXCEPT ![c] = <<>>]
    /\ mine' = [mine EXCEPT ![c] = {}]
    /\ prior' = [prior EXCEPT ![c] = {}]
    /\ seen' = [seen EXCEPT ![c] = {}]
    /\ UNCHANGED <<dbVars, clockVars, eff, hookVars, autoFollow, reply, newWinners,
                   reEmit>>

\* the swaps delivered while discovery runs: one wallet trading one token
DiscObjs(s) ==
    { BuyObj(s, "W1", "T1", 2, 1),
      BuyObj(s, "W1", "T1", 1, 2),
      SellObj(s, "W1", "T1", 1, 2) }

DiscWebhook ==
    /\ Len(swaps) < MaxDiscSwaps
    /\ \E obj \in DiscObjs(SigOrder[Len(swaps) + 1]) : WebhookItem(obj)
    /\ UNCHANGED <<follows, announced, clockVars, hookVars, discVars, reply>>

\* time.time() moves on: by a second, and up to and just past the start of
\* the 30-day and of the 90-day window
TickSteps ==
    {1, D30_DAYS * DAY, D30_DAYS * DAY + 1, D90_DAYS * DAY, D90_DAYS * DAY + 1}

Tick ==
    /\ ticks < MaxTicks
    /\ \E step \in TickSteps : now' = now + step
    /\ ticks' = ticks + 1
    /\ reply' = NoReply
    /\ UNCHANGED <<dbVars, eff, hookVars, discVars>>

NextDisc ==
    \/ DiscWebhook
    \/ Tick
    \/ \E c \in DiscCallers : DiscLife(c)
    \/ \E c \in DiscCallers : DiscD30(c)
    \/ \E c \in DiscCallers : DiscD90(c)
    \/ \E c \in DiscCallers : DiscAnnounced(c)
    \/ \E c \in DiscCallers : DiscEmit(c)
    \/ \E c \in DiscCallers : DiscFollow(c)
    \/ \E c \in DiscCallers : DiscMark(c)
    \/ \E c \in DiscCallers : DiscReturn(c)

SpecDisc == InitDisc /\ [][NextDisc]_vars

(***************************************************************************)
(* The operator's commands and discovery_job, one at a time, next to       *)
(* ingestion and a moving clock.                                           *)
(***************************************************************************)
\* cmd_follow and api_follow: INSERT OR REPLACE INTO follows
cmd_follow(wallet) ==
    /\ follows' = follows \cup {wallet}
    /\ UNCHANGED <<swaps, positions, realized, announced, clockVars, eff,
                   hookVars, discVars, reply>>

cmd_unfollow_Forget(wallet) ==
    /\ follows' = follows \ {wallet}
    /\ announced' = announced \ {wallet}
    /\ UNCHANGED <<swaps, positions, realized, clockVars, eff, hookVars,
                   discVars, reply>>

\* cmd_unfollow: DELETE FROM follows WHERE wallet=?
cmd_unfollow(wallet) ==
    /\ follows' = follows \ {wallet}
    /\ UNCHANGED <<swaps, positions, realized, announced, clockVars, eff,
                   hookVars, discVars, reply>>

\* discovery_job from its first line to its last, with no other operation
\* in between
discovery_job ==
    LET ws == Winners(get_top_wallets(realized, 1, LIFE_LIMIT),
                      get_window_stats(realized, now, D30_DAYS),
                      get_window_stats(realized, now, D90_DAYS))
        new_winners == NewWinners(ws, announced)
        sent == {new_winners[i] : i \in 1..Len(new_winners)}
    IN  /\ announced' = announced \cup sent
        /\ follows' = IF autoFollow THEN follows \cup sent ELSE follows
        /\ UNCHANGED <<swaps, positions, realized, clockVars, eff, hookVars,
                       discVars, reply>>

NextOps ==
    \/ DiscWebhook
    \/ Tick
    \/ \E w \in Wallets : cmd_follow(w)
    \/ \E w \in Wallets : cmd_unfollow(w)
    \/ discovery_job

SpecOps == InitDisc /\ [][NextOps]_vars

(***************************************************************************)
(* The operator's queries, one at a time, next to ingestion and a moving   *)
(* clock: cmd_top, cmd_toplong, and the filter of discovery_job.           *)
(***************************************************************************)
\* the swaps delivered while the operator queries: W1 wins or loses 1 on a
\* token bought for 2, W2 wins 2
QueryObjs(s) ==
    { BuyObj(s, "W1", "T1", 1, 2),
      SellObj(s, "W1", "T1", 1, 3),
      SellObj(s, "W1", "T1", 1, 1),
      BuyObj(s, "W2", "T1", 1, 2),
      SellObj(s, "W2", "T1", 1, 4) }

QueryWebhook ==
    /\ Len(swaps) < MaxQuerySwaps
    /\ \E obj \in QueryObjs(SigOrder[Len(swaps) + 1]) : WebhookItem(obj)
    /\ reply' = NoReply
    /\ UNCHANGED <<follows, announced, clockVars, hookVars, discVars>>

\* the arguments the operator types
QueryMinTrades == {1, 2}
QueryLimits == {-1, 0, 1, 2}
QueryDays == {0, D30_DAYS}

cmd_top_Touch(min_trades, limit) ==
    /\ reply' = [op |-> "top", args |-> <<min_trades, limit>>,
                 rows |-> get_top_wallets(realized, min_trades, limit)]
    /\ follows' = follows \cup {r.wallet : r \in
                     {get_top_wallets(realized, min_trades, limit)[i] :
                        i \in 1..Len(get_top_wallets(realized, min_trades, limit))}}
    /\ UNCHANGED <<swaps, positions, realized, announced, clockVars, eff,
                   hookVars, discVars>>

\* cmd_top: rows = get_top_wallets(min_trades, limit)
cmd_top(min_trades, limit) ==
    /\ reply' = [op |-> "top", args |-> <<min_trades, limit>>,
                 rows |-> get_top_wallets(realized, min_trades, limit)]
    /\ UNCHANGED <<dbVars, clockVars, eff, hookVars, discVars>>

\* cmd_toplong: rows = get_window_stats(days), before the handler picks the
\* rows to print
cmd_toplong(days) ==
    /\ reply' = [op |-> "toplong", args |-> <<days>>,
                 rows |-> get_window_stats(realized, now, days)]
    /\ UNCHANGED <<dbVars, clockVars, eff, hookVars, discVars>>

\* winners = filter_long_term_winners(), the first call of discovery_job
filter_long_term_winners ==
    /\ reply' = [op |-> "filter", args |-> <<>>,
                 rows |-> Winners(get_top_wallets(realized, 1, LIFE_LIMIT),
                                  get_window_stats(realized, now, D30_DAYS),
                                  get_window_stats(realized, now, D90_DAYS))]
    /\ UNCHANGED <<dbVars, clockVars, eff, hookVars, discVars>>

NextQuery ==
    \/ QueryWebhook
    \/ Tick
    \/ \E mt \in QueryMinTrades, lim \in QueryLimits : cmd_top(mt, lim)
    \/ \E days \in QueryDays : cmd_toplong(days)
    \/ filter_long_term_winners

SpecQuery == Init /\ [][NextQuery]_vars

(***************************************************************************)
(* helius_webhook under concurrent requests whose payload is a list.       *)
(***************************************************************************)
\* the payloads: one transaction, or one of W1 followed by one of W2
HookBatches ==
    {<<o>> : o \in HookObjs}
      \cup {<<a, b>> : a \in {o \in HookObjs : o.wallet = "W1"},
                       b \in {o \in HookObjs : o.wallet = "W2"}}

\* a request arrives: items = payload, a list
ReceiveBatch(t, objs) ==
    /\ pc[t] = "idle"
    /\ deliveries < MaxDeliveries
    /\ deliveries' = deliveries + 1
    /\ delivered' = [s \in HookSigs |->
                       delivered[s]
                         + Cardinality({i \in 1..Len(objs) : objs[i].signature = s})]
    /\ items' = [items EXCEPT ![t] = objs]
    /\ pc' = [pc EXCEPT ![t] = "item"]
    /\ UNCHANGED <<dbVars, clockVars, eff, data, row, plan, sid, discVars, reply>>

NextBatch ==
    \/ \E t \in Threads, objs \in HookBatches : ReceiveBatch(t, objs)
    \/ \E t \in Threads : InsertSwap(t)
    \/ \E t \in Threads : SellSelect(t)
    \/ \E t \in Threads : UpsertSelect(t)
    \/ \E t \in Threads : UpsertWrite(t)
    \/ \E t \in Threads : RealizedInsert(t)
    \/ \E t \in Threads : Respond(t)

SpecBatch == Init /\ [][NextBatch]_vars

(***************************************************************************)
(* helius_webhook under concurrent requests on different pairs: each       *)
(* request thread carries the transactions of one wallet.                  *)
(***************************************************************************)
ReceivePair(t, obj) ==
    /\ pc[t] = "idle"
    /\ deliveries < MaxDeliveries
    /\ deliveries' = deliveries + 1
    /\ delivered' = [delivered EXCEPT ![obj.signature] = @ + 1]
    /\ items' = [items EXCEPT ![t] = <<obj>>]
    /\ pc' = [pc EXCEPT ![t] = "item"]
    /\ UNCHANGED <<dbVars, clockVars, eff, data, row, plan, sid, discVars, reply>>

NextPairs ==
    \/ \E t \in Threads : \E obj \in PairObjs(t) : ReceivePair(t, obj)
    \/ \E t \in Threads : InsertSwap(t)
    \/ \E t \in Threads : SellSelect(t)
    \/ \E t \in Threads : UpsertSelect(t)
    \/ \E t \in Threads : UpsertWrite(t)
    \/ \E t \in Threads : RealizedInsert(t)
    \/ \E t \in Threads : Respond(t)

SpecPairs == Init /\ [][NextPairs]_vars

(***************************************************************************)
(* helius_webhook under concurrent requests that sell from one pair.       *)
(***************************************************************************)
ReceiveSell(t, obj) ==
    /\ pc[t] = "idle"
    /\ deliveries < MaxDeliveries
    /\ deliveries' = deliveries + 1
    /\ delivered' = [delivered EXCEPT ![obj.signature] = @ + 1]
    /\ items' = [items EXCEPT ![t] = <<obj>>]
    /\ pc' = [pc EXCEPT ![t] = "item"]
    /\ UNCHANGED <<dbVars, clockVars, eff, data, row, plan, sid, discVars, reply>>

NextSells ==
    \/ \E t \in Threads, obj \in SellObjs : ReceiveSell(t, obj)
    \/ \E t \in Threads : InsertSwap(t)
    \/ \E t \in Threads : SellSelect(t)
    \/ \E t \in Threads : UpsertSelect(t)
    \/ \E t \in Threads : UpsertWrite(t)
    \/ \E t \in Threads : RealizedInsert(t)
    \/ \E t \in Threads : Respond(t)

SpecSells == Init /\ [][NextSells]_vars

(***************************************************************************)
(* Sequential ingestion of items with and without a signature: the         *)
(* payload has neither "signature" nor transaction.signatures, and         *)
(* parse_swap_from_helius_obj returns signature None.                      *)
(***************************************************************************)
UnsignedObjs(s) ==
    { BuyObj(s, "W1", "T1", 1, 1),
      BuyObj(s, "W1", "T1", 2, 1),
      SellObj(s, "W1", "T1", 1, 2) }

UnsignedWebhook ==
    /\ Len(swaps) < MaxSwaps
    /\ \E s \in SigChoices(swaps) \cup {NoSig} :
          \E obj \in UnsignedObjs(s) : WebhookItem(obj)
    /\ UNCHANGED <<follows, announced, clockVars, hookVars, discVars, reply>>

NextUnsigned == UnsignedWebhook

SpecUnsigned == Init /\ [][NextUnsigned]_vars

(***************************************************************************)
(* Properties.                                                             *)
(***************************************************************************)
AllIdle == \A t \in Threads : pc[t] = "idle"

SwapIds == 1..Len(swaps)
RowsWithSig(sig) == {i \in SwapIds : swaps[i].signature = sig}
KeySwaps(k) == {i \in SwapIds : KeyOf(swaps[i]) = k}

\* every order in which the members of S can be taken
RECURSIVE Orders(_)
Orders(S) ==
    IF S = {} THEN {<<>>}
    ELSE UNION {{<<x>> \o o : o \in Orders(S \ {x})} : x \in S}

\* the position row after the swap rows ids are applied one after the other,
\* each to the row the one before it left
RECURSIVE SerialRow(_, _)
SerialRow(r, ids) ==
    IF ids = <<>> THEN r
    ELSE LET p == PlanOf(swaps[Head(ids)], r)
         IN  SerialRow(UpsertRow(r, p.dq, p.dc), Tail(ids))

\* C1 (as claimed): once every request has returned, a signature that was
\* delivered two or more times has exactly one swap row, the position was
\* updated exactly once for it and at most one realized row was inserted
\* for it.
C1_IdempotentIngest ==
    AllIdle =>
        \A s \in HookSigs :
            delivered[s] >= 2 =>
                /\ Cardinality(RowsWithSig(s)) = 1
                /\ \A i \in RowsWithSig(s) : eff[i].upd = 1 /\ eff[i].real <= 1

\* C2 (as claimed): once every request has returned, the row of each
\* (wallet, token) pair is what applying the pair's recorded swaps one by
\* one, in some order, leaves: no delta is lost.
C2_SerialOutcome ==
    AllIdle =>
        \A k \in Keys :
            KeySwaps(k) # {} =>
                \E o \in Orders(KeySwaps(k)) : positions[k] = SerialRow(NoRow, o)

\* C3 (as claimed): in every committed state, a recorded swap has its
\* position update applied and, when its SELL realizes, its realized row.
C3_AtomicUnit ==
    \A i \in SwapIds :
        /\ eff[i].upd = 1
        /\ (eff[i].path = "normal" => eff[i].real = 1)

(***************************************************************************)
(* Properties of the accounting, one request at a time (SpecSeq).          *)
(***************************************************************************)
Sells == {i \in SwapIds : swaps[i].direction = "SELL"}
SellQty(i) == swaps[i].token_amount
BaseReceived(i) == swaps[i].base_amount
RealizedBy == {i \in SwapIds : eff[i].rid # 0}

\* every realized row was inserted by one recorded swap
RealizedAccounted ==
    /\ Cardinality(RealizedBy) = Len(realized)
    /\ \A i \in RealizedBy : eff[i].rid \in 1..Len(realized)
    /\ \A i, j \in RealizedBy : eff[i].rid = eff[j].rid => i = j

\* the SELLs of the guard: non-positive amounts, or nothing held
Degenerate(i) ==
    \/ RLe(SellQty(i), Zero)
    \/ RLe(BaseReceived(i), Zero)
    \/ ~eff[i].pre.has
    \/ RLe(eff[i].pre.qty, Zero)

\* C4: a SELL against a zero, negative or absent position, or with
\* non-positive amounts, inserts no realized row and returns PnL 0, lowers
\* the quantity by sellQty and leaves the cost basis as it was.
C4_NoPhantomPnl ==
    /\ RealizedAccounted
    /\ \A i \in Sells :
        Degenerate(i) =>
            /\ eff[i].rid = 0
            /\ eff[i].pnl = Zero
            /\ eff[i].post.has
            /\ RAdd(eff[i].post.qty, SellQty(i)) = RowQty(eff[i].pre)
            /\ eff[i].post.cost = RowCost(eff[i].pre)

\* C4 witness: a SELL of 2 with nothing recorded leaves (-2, 0) and no
\* realized row.
C4_Witness ==
    \E i \in Sells :
        /\ ~eff[i].pre.has
        /\ SellQty(i) = Float(2)
        /\ eff[i].post = Row(Float(-2), Zero)
        /\ eff[i].rid = 0

\* the realized row of swap i is as the claim says: its PnL, its win flag
RealizedAs(i, pnl) ==
    /\ eff[i].rid \in 1..Len(realized)
    /\ realized[eff[i].rid].wallet = swaps[i].wallet
    /\ realized[eff[i].rid].token_mint = swaps[i].token_mint
    /\ realized[eff[i].rid].pnl_base = pnl
    /\ realized[eff[i].rid].is_win = (IF pnl[1] > 0 THEN 1 ELSE 0)

FullExitOutcome(i) ==
    /\ eff[i].post = Row(Zero, Zero)
    /\ eff[i].pnl = RSub(BaseReceived(i), RowCost(eff[i].pre))

\* C5 (as claimed): a SELL whose sellQty equals the quantity held leaves
\* (0, 0) and returns baseReceived minus the cost basis held before.
C5_FullExitAnyQty ==
    \A i \in Sells :
        SellQty(i) = RowQty(eff[i].pre) => FullExitOutcome(i)

\* C6: a partial SELL, 0 < sellQty < qty, removes cost * sellQty / qty: the
\* cost per unit of what remains is the cost per unit held before, and
\* selling half the quantity removes half the cost.
C6_PartialExit ==
    \A i \in Sells :
        (/\ eff[i].pre.has
         /\ RLt(Zero, SellQty(i))
         /\ RLt(SellQty(i), eff[i].pre.qty)) =>
            /\ RMul(RSub(eff[i].pre.cost, eff[i].post.cost), eff[i].pre.qty)
                    = RMul(eff[i].pre.cost, SellQty(i))
            /\ RMul(eff[i].post.cost, eff[i].pre.qty)
                    = RMul(eff[i].pre.cost, eff[i].post.qty)
            /\ (RAdd(SellQty(i), SellQty(i)) = eff[i].pre.qty
                    => RAdd(eff[i].post.cost, eff[i].post.cost) = eff[i].pre.cost)
            /\ eff[i].pnl = RSub(BaseReceived(i),
                                 RSub(eff[i].pre.cost, eff[i].post.cost))

\* C6 witness: half of a position that cost something was sold.
C6_Witness ==
    \E i \in Sells :
        /\ eff[i].pre.has
        /\ RLt(Zero, eff[i].pre.cost)
        /\ RLt(Zero, SellQty(i))
        /\ RAdd(SellQty(i), SellQty(i)) = eff[i].pre.qty
        /\ eff[i].rid # 0

RECURSIVE SumOver(_, _, _)
\* the sum of field f of the swap rows ids
SumOver(ids, f, acc) ==
    IF ids = {} THEN acc
    ELSE LET i == CHOOSE x \in ids : TRUE
         IN  SumOver(ids \ {i}, f, RAdd(acc, swaps[i][f]))

\* C7: a pair that has only BUYs recorded holds the sum of their token
\* amounts at a cost basis that is the sum of their base amounts.
C7_BuysAddUp ==
    \A k \in Keys :
        (KeySwaps(k) # {} /\ KeySwaps(k) \cap Sells = {}) =>
            positions[k] = Row(SumOver(KeySwaps(k), "token_amount", Zero),
                               SumOver(KeySwaps(k), "base_amount", Zero))

\* C7 witness: three BUYs on one pair, 5 units of base spent.
C7_Witness ==
    \E k \in Keys :
        /\ Cardinality(KeySwaps(k)) = 3
        /\ KeySwaps(k) \cap Sells = {}
        /\ positions[k].cost = Float(5)

\* C5 (amended): a SELL with baseReceived > 0 whose sellQty equals a
\* quantity held that is above zero leaves (0, 0), returns baseReceived
\* minus the cost basis held before and inserts the realized row of that
\* PnL, a win when it is above zero; the lifetime ranking then lists the
\* wallet.
C5_FullExit ==
    \A i \in Sells :
        (/\ SellQty(i) = RowQty(eff[i].pre)
         /\ RLt(Zero, RowQty(eff[i].pre))
         /\ RLt(Zero, BaseReceived(i))) =>
            /\ FullExitOutcome(i)
            /\ RealizedAs(i, RSub(BaseReceived(i), eff[i].pre.cost))
            /\ LET rows == get_top_wallets(realized, 1, 10)
               IN  /\ HasRow(rows, swaps[i].wallet)
                   /\ RowFor(rows, swaps[i].wallet).trades >= 1

\* C5 witness: 2 bought for 1 and all 2 sold for 2: PnL 1, a win, the
\* position at (0, 0), the wallet ranked with 1 trade, 1 win, 100.00 %.
C5_Witness ==
    \E i \in Sells :
        /\ eff[i].pre = Row(Float(2), Float(1))
        /\ SellQty(i) = Float(2)
        /\ BaseReceived(i) = Float(2)
        /\ eff[i].pnl = Float(1)
        /\ positions[KeyOf(swaps[i])] = Row(Zero, Zero)
        /\ LET r == RowFor(get_top_wallets(realized, 1, 10), swaps[i].wallet)
           IN  r.trades = 1 /\ r.wins = 1 /\ r.win_rate_pct = Float(100)
               /\ r.pnl_sum = Float(1)

(***************************************************************************)
(* Discovery.                                                              *)
(***************************************************************************)
\* C8: no wallet is emitted by discovery_job in a state where it is already
\* in announced, under any interleaving of the scheduler's and the
\* operator's invocations.
C8_NeverEmittedAgain == reEmit = {}

Meets(table, w, ids, min_trades, min_winrate, min_pnl) ==
    /\ ids # {}
    /\ Cardinality(ids) >= min_trades
    /\ RLe(Float(min_winrate), StatRow(table, w, ids).win_rate_pct)
    /\ RLe(Float(min_pnl), StatRow(table, w, ids).pnl_sum)

\* the wallet's realized rows of the last days days
WindowIds(table, clock, w, days) ==
    {i \in 1..Len(table) : table[i].wallet = w /\ table[i].ts >= clock - days * DAY}

Qualifies(table, clock, w) ==
    /\ Meets(table, w, {i \in 1..Len(table) : table[i].wallet = w},
             LIFE_MIN_TRADES, LIFE_MIN_WINRATE, LIFE_MIN_PNL)
    /\ Meets(table, w, WindowIds(table, clock, w, D30_DAYS),
             D30_MIN_TRADES, D30_MIN_WINRATE, D30_MIN_PNL)
    /\ Meets(table, w, WindowIds(table, clock, w, D90_DAYS),
             D90_MIN_TRADES, D90_MIN_WINRATE, D90_MIN_PNL)

\* the call has built winners
Filtered(c) == dpc[c] \in {"announced", "loop", "follow", "mark"}

\* the call's three queries saw one realized table and one clock
OneSnapshot(c) == Cardinality(seen[c]) = 1

WinnerSet(c) == {winners[c][i] : i \in 1..Len(winners[c])}

\* C10: the winners of a call whose three queries saw the same realized
\* table and clock are exactly the wallets whose lifetime, 30-day and 90-day
\* statistics each meet their three thresholds; a wallet with no realized
\* row in the 30-day or the 90-day window is not among them.
C10_QualifiesIff ==
    \A c \in DiscCallers :
        Filtered(c) /\ OneSnapshot(c) =>
            LET s == CHOOSE x \in seen[c] : TRUE
                table == SubSeq(realized, 1, s[1])
            IN  /\ WinnerSet(c) = {w \in Wallets : Qualifies(table, s[2], w)}
                /\ \A w \in WinnerSet(c) :
                       /\ WindowIds(table, s[2], w, D30_DAYS) # {}
                       /\ WindowIds(table, s[2], w, D90_DAYS) # {}

\* one call found W1 qualifying; the other, after W1's trades left the
\* 30-day window, finds the lifetime row still passing and no winner
C10_Witness ==
    /\ Filtered("sched") /\ OneSnapshot("sched")
    /\ winners["sched"] = <<"W1">>
    /\ Filtered("tg") /\ OneSnapshot("tg")
    /\ HasRow(life["tg"], "W1")
    /\ ~LifeFails(RowFor(life["tg"], "W1"))
    /\ ~HasRow(d30["tg"], "W1")
    /\ HasRow(d90["tg"], "W1")
    /\ winners["tg"] = <<>>

(***************************************************************************)
(* The announced table under the operator's commands (SpecOps).            *)
(***************************************************************************)
\* C11: a wallet in announced stays in announced in every later state: no
\* ingestion, discovery_job, cmd_follow or cmd_unfollow step removes a row
\* of announced, however the wallet's statistics change.
C11_AnnouncedTerminal == [][announced \subseteq announced']_vars

\* W1 was announced and followed by discovery_job, then unfollowed, and its
\* trades have left the 30-day window: it qualifies no more and is still
\* announced
C11_Witness ==
    /\ autoFollow
    /\ "W1" \in announced
    /\ "W1" \notin follows
    /\ "W2" \in follows
    /\ now > D30_DAYS * DAY
    /\ ~Qualifies(realized, now, "W1")

(***************************************************************************)
(* The statistics the operator is shown (SpecQuery).                       *)
(***************************************************************************)
\* the wallet's realized rows
WalletIds(table, w) == {i \in 1..Len(table) : table[i].wallet = w}

\* the reply's row of a wallet is there and is r
Shows(rows, w, r) ==
    /\ Cardinality({i \in 1..Len(rows) : rows[i].wallet = w}) = 1
    /\ \E i \in 1..Len(rows) :
           /\ rows[i].wallet = w
           /\ rows[i].wins = r.wins
           /\ rows[i].trades = r.trades
           /\ rows[i].win_rate_pct = r.win_rate_pct
           /\ rows[i].pnl_sum = r.pnl_sum

\* C12: get_window_stats(days) has one row per wallet with a realized row of
\* ts >= now - days*86400, aggregated over exactly those rows: a row at the
\* boundary counts, a row one second older does not.
C12_WindowBoundary ==
    reply.op = "toplong" =>
        \A w \in Wallets :
            LET ids == {i \in WalletIds(realized, w) :
                          realized[i].ts >= now - reply.args[1] * DAY}
            IN  IF ids = {}
                THEN \A i \in 1..Len(reply.rows) : reply.rows[i].wallet # w
                ELSE Shows(reply.rows, w, StatRow(realized, w, ids))

\* W1 has a trade exactly at the boundary and one a second older; the
\* window shows one trade
C12_Witness ==
    /\ reply.op = "toplong"
    /\ \E i, j \in WalletIds(realized, "W1") :
           /\ realized[i].ts = now - reply.args[1] * DAY
           /\ realized[j].ts = now - reply.args[1] * DAY - 1
    /\ \E i \in 1..Len(reply.rows) :
           reply.rows[i].wallet = "W1" /\ reply.rows[i].trades = 1

\* C13: in the lifetime ranking every wallet with a realized row has one
\* entry, with trades >= 1 the number of its rows, wins the number of them
\* with pnl_base > 0, wins <= trades, and win_rate_pct equal to
\* 100*wins/trades rounded to 2 places, between 0 and 100.
C13_WinRate ==
    reply.op = "top" /\ reply.args = <<1, -1>> =>
        \A w \in Wallets :
            LET ids == WalletIds(realized, w)
                wins == Cardinality({i \in ids : RLt(Zero, realized[i].pnl_base)})
            IN  ids # {} =>
                  /\ Cardinality({i \in 1..Len(reply.rows) :
                                    reply.rows[i].wallet = w}) = 1
                  /\ \E i \in 1..Len(reply.rows) :
                       /\ reply.rows[i].wallet = w
                       /\ reply.rows[i].trades = Cardinality(ids)
                       /\ reply.rows[i].trades >= 1
                       /\ reply.rows[i].wins = wins
                       /\ reply.rows[i].wins <= reply.rows[i].trades
                       /\ reply.rows[i].win_rate_pct
                            = Round2(Rat(100 * wins, Cardinality(ids)))
                       /\ RLe(Zero, reply.rows[i].win_rate_pct)
                       /\ RLe(reply.rows[i].win_rate_pct, Float(100))

\* W1 is shown with a win and a loss, 50 percent
C13_Witness ==
    /\ reply.op = "top" /\ reply.args = <<1, -1>>
    /\ \E i \in 1..Len(reply.rows) :
           /\ reply.rows[i].wallet = "W1"
           /\ reply.rows[i].trades = 2
           /\ reply.rows[i].wins = 1
           /\ reply.rows[i].win_rate_pct = Float(50)

(***************************************************************************)
(* Failures of the threaded webhook (SpecBatch, Spec).                     *)
(***************************************************************************)
\* C14: once all requests have ended, every delivered record has its swap
\* row, and unless its own position update failed, its position update:
\* the failure of one record of a payload does not keep the records after
\* it, on other pairs, from being ingested.
C14_RestOfBatchIngested ==
    AllIdle =>
        \A s \in HookSigs :
            delivered[s] > 0 =>
                \E i \in SwapIds :
                    /\ swaps[i].signature = s
                    /\ eff[i].err \/ eff[i].upd = 1

\* C15: no position update ends in a storage conflict that is surfaced to
\* the request that made it.
C15_ConflictNeverSurfaces == \A i \in 1..Len(eff) : ~eff[i].err

(***************************************************************************)
(* Requests on different pairs (SpecPairs).                                *)
(***************************************************************************)
\* the ids of a set of rows, in ascending order
RECURSIVE Ascending(_)
Ascending(S) ==
    IF S = {} THEN <<>>
    ELSE LET x == CHOOSE y \in S : \A z \in S : y <= z
         IN  <<x>> \o Ascending(S \ {x})

\* the PnL of the realized rows that the swap rows ids insert when they are
\* applied one after the other, starting from the row r
RECURSIVE SerialPnls(_, _)
SerialPnls(r, ids) ==
    IF ids = <<>> THEN <<>>
    ELSE LET p == PlanOf(swaps[Head(ids)], r)
             rest == SerialPnls(UpsertRow(r, p.dq, p.dc), Tail(ids))
         IN  IF p.path = "normal" THEN <<p.pnl>> \o rest ELSE rest

\* the PnL of the realized rows of a pair, in id order
PairPnls(k) ==
    LET ids == Ascending({i \in 1..Len(realized) :
                            <<realized[i].wallet, realized[i].token_mint>> = k})
    IN  [n \in 1..Len(ids) |-> realized[ids[n]].pnl_base]

\* once every request has returned, each pair's position and realized rows
\* are those of its own swap rows applied alone, in the order recorded
PairsAlone ==
    AllIdle =>
        \A k \in Keys :
            /\ positions[k] = SerialRow(NoRow, Ascending(KeySwaps(k)))
            /\ PairPnls(k) = SerialPnls(NoRow, Ascending(KeySwaps(k)))

\* a step that writes the row of one pair leaves the rows of the others
OneRowWritten ==
    \A k1, k2 \in Keys :
        positions'[k1] # positions[k1] /\ positions'[k2] # positions[k2]
            => k1 = k2

\* C16: records on different pairs, ingested by concurrent requests, do not
\* interfere: each pair ends with the position and realized rows of its own
\* records ingested alone, and every position write changes one row only.
C16_NoCrossTalk == []PairsAlone /\ [][OneRowWritten]_vars

\* both wallets bought and sold, in requests that overlapped
C16_Witness ==
    /\ AllIdle
    /\ Len(realized) = 2
    /\ realized[1].wallet # realized[2].wallet
    /\ \E i, j \in 1..Len(eff) :
           /\ swaps[i].wallet = "W1" /\ swaps[j].wallet = "W2"
           /\ i < j /\ eff[i].rid > eff[j].rid /\ eff[j].rid > 0

(***************************************************************************)
(* The queries leave the tables alone and repeat themselves (SpecQuery).   *)
(***************************************************************************)
\* a step in which cmd_top, cmd_toplong or filter_long_term_winners returned
Queried == reply' # NoReply

\* C17: a call of get_top_wallets, get_window_stats or
\* filter_long_term_winners leaves swaps, positions, realized, follows and
\* announced as they were, and a call repeated with the same arguments on
\* the same realized table at the same time returns the same rows.
C17_QueriesPure ==
    [][Queried =>
          /\ UNCHANGED dbVars
          /\ (reply.op = reply'.op /\ reply.args = reply'.args
                => reply'.rows = reply.rows)]_vars

\* cmd_top has listed both wallets and the tables hold what ingestion left
C17_Witness ==
    /\ reply.op = "top"
    /\ Len(reply.rows) = 2
    /\ Len(realized) = 2
    /\ Len(swaps) = 4
    /\ follows = {}
    /\ announced = {}

\* a ranks no lower than b: win rate descending, then PnL sum descending
NoLower(a, b) ==
    \/ RLt(b.win_rate_pct, a.win_rate_pct)
    \/ a.win_rate_pct = b.win_rate_pct /\ RLe(b.pnl_sum, a.pnl_sum)

\* the wallets with at least min_trades realized rows (and at least one)
Eligible(min_trades) ==
    {w \in Wallets : /\ WalletIds(realized, w) # {}
                     /\ Cardinality(WalletIds(realized, w)) >= min_trades}

\* rows lists eligible wallets only, each once, with its statistics, in
\* rank order, and no eligible wallet left out ranks above a listed one
Ranked(rows, min_trades) ==
    /\ \A i \in 1..Len(rows) :
           /\ rows[i].wallet \in Eligible(min_trades)
           /\ Shows(rows, rows[i].wallet,
                    StatRow(realized, rows[i].wallet,
                            WalletIds(realized, rows[i].wallet)))
    /\ \A i, j \in 1..Len(rows) : i < j => NoLower(rows[i], rows[j])
    /\ \A w \in Eligible(min_trades) :
           \/ \E i \in 1..Len(rows) : rows[i].wallet = w
           \/ \A i \in 1..Len(rows) :
                  NoLower(rows[i], StatRow(realized, w, WalletIds(realized, w)))
    /\ (realized = <<>> => rows = <<>>)

\* C18 (as claimed): get_top_wallets(min_trades, limit) returns wallets with
\* at least min_trades trades only, at most limit of them, by win rate
\* descending and then PnL sum descending, and nothing on an empty table.
C18_TopWalletsAnyLimit ==
    reply.op = "top" =>
        /\ Ranked(reply.rows, reply.args[1])
        /\ Len(reply.rows) <= reply.args[2]

\* C18 (amended): as claimed for limit >= 0, where the result has
\* min(limit, eligible wallets) rows; a negative limit returns every
\* eligible wallet.
C18_TopWallets ==
    reply.op = "top" =>
        LET n == Cardinality(Eligible(reply.args[1]))
            limit == reply.args[2]
        IN  /\ Ranked(reply.rows, reply.args[1])
            /\ Len(reply.rows) = IF limit < 0 \/ n < limit THEN n ELSE limit

\* two wallets with equal win rates are eligible and limit is 1: the one
\* with the higher PnL sum, W2, is returned
C18_Witness ==
    /\ reply.op = "top"
    /\ reply.args = <<1, 1>>
    /\ Eligible(1) = {"W1", "W2"}
    /\ StatRow(realized, "W1", WalletIds(realized, "W1")).win_rate_pct
         = StatRow(realized, "W2", WalletIds(realized, "W2")).win_rate_pct
    /\ Len(reply.rows) = 1
    /\ reply.rows[1].wallet = "W2"

(***************************************************************************)
(* Where realized rows come from (Spec).                                   *)
(***************************************************************************)
\* C19: every realized row was inserted for exactly one recorded swap, a
\* SELL of the row's wallet and token with token and base amounts above
\* zero whose realize_sell read a quantity above zero; no swap inserted
\* more than one realized row and a BUY inserted none.
C19_RealizedFromSell ==
    /\ \A r \in 1..Len(realized) :
           /\ Cardinality({i \in SwapIds : eff[i].rid = r}) = 1
           /\ \A i \in SwapIds :
                  eff[i].rid = r =>
                      /\ swaps[i].direction = "SELL"
                      /\ swaps[i].wallet = realized[r].wallet
                      /\ swaps[i].token_mint = realized[r].token_mint
                      /\ RLt(Zero, swaps[i].token_amount)
                      /\ RLt(Zero, swaps[i].base_amount)
                      /\ RLt(Zero, RowQty(eff[i].pre))
    /\ \A i \in SwapIds :
           /\ eff[i].real <= 1
           /\ swaps[i].direction = "BUY" => eff[i].real = 0 /\ eff[i].rid = 0

\* the SELL S3 was delivered twice and realized once against what two BUYs
\* left
C19_Witness ==
    /\ AllIdle
    /\ delivered["S3"] = 2
    /\ Len(realized) = 1
    /\ \E i \in SwapIds :
           /\ swaps[i].signature = "S3"
           /\ eff[i].rid = 1
           /\ RLt(Zero, RowQty(eff[i].pre))
    /\ \E i \in SwapIds : swaps[i].direction = "BUY" /\ eff[i].upd = 1

(***************************************************************************)
(* Selling more than is held (SpecSeq).                                    *)
(***************************************************************************)
\* the SELLs of more than the quantity above zero that was held
Oversold(i) ==
    /\ swaps[i].direction = "SELL"
    /\ RLt(Zero, swaps[i].base_amount)
    /\ RLt(Zero, RowQty(eff[i].pre))
    /\ RLt(RowQty(eff[i].pre), swaps[i].token_amount)

\* C20: a SELL of more than the quantity above zero that is held removes
\* the whole cost basis and no more: its PnL, returned and recorded, is
\* base_amount minus the cost held before, the cost basis becomes 0 and
\* the quantity becomes qty - sell_qty, below zero.
C20_OversellClamps ==
    \A i \in SwapIds :
        Oversold(i) =>
            /\ eff[i].path = "normal"
            /\ eff[i].pnl = RSub(swaps[i].base_amount, RowCost(eff[i].pre))
            /\ eff[i].rid \in 1..Len(realized)
            /\ realized[eff[i].rid].pnl_base = eff[i].pnl
            /\ RowCost(eff[i].post) = Zero
            /\ RowQty(eff[i].post)
                 = RSub(RowQty(eff[i].pre), swaps[i].token_amount)
            /\ RLt(RowQty(eff[i].post), Zero)

\* 1 token bought for 2, then 2 tokens sold for 1: PnL -1, position (-1, 0)
C20_Witness ==
    \E i \in SwapIds :
        /\ Oversold(i)
        /\ RowCost(eff[i].pre) = Float(2)
        /\ eff[i].pnl = Float(-1)
        /\ positions[KeyOf(swaps[i])] = Row(Float(-1), Zero)

(***************************************************************************)
(* Exhausted positions (SpecSeq).                                          *)
(***************************************************************************)
\* a position row whose quantity is 0 has cost basis 0
ExhaustedNoCost ==
    \A k \in Keys :
        (positions[k].has /\ positions[k].qty = Zero) => positions[k].cost = Zero

\* no step deletes a position row
RowsKept == \A k \in Keys : positions[k].has => positions'[k].has

\* C21: in every state reached by BUY and SELL ingestions a position whose
\* quantity is 0 has cost basis 0, and a position row once created is never
\* deleted.
C21_ExhaustedNoCost == []ExhaustedNoCost /\ [][RowsKept]_vars

(***************************************************************************)
(* The frame of discovery_job (SpecDisc).                                  *)
(***************************************************************************)
\* a step of the discovery_job call of c
DiscStep(c) == dpc'[c] # dpc[c]

\* the step on which the discovery_job call of c returns
DiscReturns(c) == dpc[c] # "idle" /\ dpc'[c] = "idle"

CostAdded(i) ==
    IF swaps[i].direction = "BUY" /\ eff[i].upd > 0
    THEN swaps[i].base_amount ELSE Zero
CostRemoved(i) ==
    IF swaps[i].direction = "SELL" /\ eff[i].upd > 0 /\ eff[i].path = "normal"
    THEN RSub(swaps[i].base_amount, eff[i].pnl) ELSE Zero

RECURSIVE SumCost(_, _, _)
SumCost(ids, Cost(_), acc) ==
    IF ids = {} THEN acc
    ELSE LET i == CHOOSE x \in ids : TRUE
         IN  SumCost(ids \ {i}, Cost, RAdd(acc, Cost(i)))

\* C23: under any interleaving of the requests no position's cost basis is
\* negative, and the cost basis removed by the SELLs of a pair is at most
\* the cost basis added by its BUYs.
C23_CostNeverNegative ==
    \A k \in Keys :
        /\ RLe(Zero, positions[k].cost)
        /\ RLe(SumCost(KeySwaps(k), CostRemoved, Zero),
               SumCost(KeySwaps(k), CostAdded, Zero))

(***************************************************************************)
(* Signatures of the swaps table (SpecUnsigned).                           *)
(***************************************************************************)
\* C24: every row of swaps carries a signature and no two rows carry the
\* same one: an item without a signature is not inserted, and a re-delivered
\* item adds no second row.
C24_SignedOnce ==
    \A i \in SwapIds :
        /\ swaps[i].signature # NoSig
        /\ \A j \in SwapIds : swaps[i].signature = swaps[j].signature => i = j

=============================================================================
